---- MODULE Spec2Model ----
(***************************************************************************)
(* NewsTool (agent_system/tools/news_tool.py): cached multi-provider       *)
(* search with retries and fallback, followed by answer synthesis.         *)
(*                                                                         *)
(* Strings that the code transforms (the completion text) are sequences    *)
(* of one-character tokens; a fixed message is a one-token sequence.       *)
(* Time is the wall clock in seconds read by the cache at every lookup     *)
(* and store; it advances between any two statements of the program.      *)
(***************************************************************************)
EXTENDS Integers, Sequences, FiniteSets, TLC

\* ---------------------------------------------------------------- bounds
\* number of clock steps of half a TTL each that the model follows
MaxTicks == 3

\* ------------------------------------------------------- program constants
max_retries == 3
TTL == 7 * 24 * 60 * 60
TickLen == TTL \div 2
MaxNow == MaxTicks * TickLen

ErrQuestionRequired == <<"Error: A question is required.">>
MsgUnableToParse == <<"Unable to parse the response format.">>
MsgUnableToGenerate == <<"Unable to generate an answer at this time.">>

Questions == {"", "x"}
NoEntry == [present |-> FALSE, value |-> <<>>, store_time |-> 0, expire |-> 0]

\* ------------------------------------------------ external responses (inputs)
BingItemOk == [name |-> "T", url |-> "u", snippet |-> "s"]
BingItemBad == [name |-> "T", url |-> "u"]
GoogleItemOk == [title |-> "G", link |-> "g", snippet |-> "gs"]
GoogleItemBad == [title |-> "G", link |-> "g"]

\* status "error": requests.get / raise_for_status raised RequestException
BingResponses ==
  { [status |-> "error", items |-> <<>>],
    [status |-> "ok", items |-> <<>>],
    [status |-> "ok", items |-> <<BingItemOk>>],
    [status |-> "ok", items |-> <<BingItemBad>>] }

GoogleResponses ==
  { [status |-> "error", items |-> <<>>],
    [status |-> "ok", items |-> <<>>],
    [status |-> "ok", items |-> <<GoogleItemOk>>],
    [status |-> "ok", items |-> <<GoogleItemBad>>] }

\* shape of completion.choices[0].message; status "error": create() raised
Texts == { <<"a">>, <<" ", "a", " ">> }
LLMResponses ==
  { [status |-> "error", shape |-> "none", content |-> <<>>] }
  \cup { [status |-> "ok", shape |-> s, content |-> t] : s \in {"dict", "attr"}, t \in Texts }
  \cup { [status |-> "ok", shape |-> "attr_none", content |-> <<>>],
         [status |-> "ok", shape |-> "no_content", content |-> <<>>] }

\* ------------------------------------------------------------ pure helpers
Ret(v) == [exc |-> "none", val |-> v]
Raise(e) == [exc |-> e, val |-> <<>>]

\* str.strip(): drop leading and trailing whitespace
RECURSIVE LStrip(_)
LStrip(s) == IF s # <<>> /\ Head(s) = " " THEN LStrip(Tail(s)) ELSE s
RECURSIVE RStrip(_)
RStrip(s) == IF s # <<>> /\ s[Len(s)] = " " THEN RStrip(SubSeq(s, 1, Len(s) - 1)) ELSE s
Strip(s) == RStrip(LStrip(s))

\* search_bing: RequestException -> []; a missing item field -> KeyError
search_bing(resp) ==
  IF resp.status = "error" THEN Ret(<<>>)
  ELSE IF \E i \in 1..Len(resp.items) :
            ~ ({"name", "url", "snippet"} \subseteq DOMAIN resp.items[i])
       THEN Raise("KeyError")
       ELSE Ret([i \in 1..Len(resp.items) |->
                  [name |-> resp.items[i].name, url |-> resp.items[i].url,
                   snippet |-> resp.items[i].snippet]])

\* search_google: same, mapping title/link/snippet to name/url/snippet
search_google(resp) ==
  IF resp.status = "error" THEN Ret(<<>>)
  ELSE IF \E i \in 1..Len(resp.items) :
            ~ ({"title", "link", "snippet"} \subseteq DOMAIN resp.items[i])
       THEN Raise("KeyError")
       ELSE Ret([i \in 1..Len(resp.items) |->
                  [name |-> resp.items[i].title, url |-> resp.items[i].link,
                   snippet |-> resp.items[i].snippet]])

\* mutant: the providers listed in the opposite order
apis_Reversed == <<"google", "bing">>

\* the apis list of search(): priority order of the providers
apis == <<"bing", "google">>

\* mutant: the completion text is returned without .strip()
Complete_NoStrip(resp) ==
  IF resp.status = "error" THEN Raise("APIError")
  ELSE IF resp.shape \in {"dict", "attr"} THEN Ret(resp.content)
  ELSE IF resp.shape = "attr_none" THEN Raise("AttributeError")
  ELSE Ret(MsgUnableToParse)

\* use(), lines 145-162: the completion call, then extract and trim the text
Complete(resp) ==
  IF resp.status = "error" THEN Raise("APIError")
  ELSE IF resp.shape \in {"dict", "attr"} THEN Ret(Strip(resp.content))
  ELSE IF resp.shape = "attr_none" THEN Raise("AttributeError")
  ELSE Ret(MsgUnableToParse)

\* mutant: no handler around the body of use()
UseTry_Propagate(r) == r

\* use(), lines 131 and 163-165: try ... except Exception -> fixed message
UseTry(r) == IF r.exc = "none" THEN r ELSE Ret(MsgUnableToGenerate)

\* use(), lines 126-127: the guard on the arguments
ArgsMissing(a) == Len(a) = 0

\* ------------------------------------------------------------------ state
VARIABLES
  cache,         \* self.cache: key -> [present, value, expire]
  now,           \* wall clock (seconds)
  pc,            \* position of the single thread
  args,          \* positional arguments of the current / last use() call
  query,         \* argument of search() / cached_search()
  api,           \* index into apis (outer loop of search)
  attempt,       \* retry number (inner loop of search), 1..max_retries
  results,       \* local `results` of cached_search
  searchOut,     \* outcome of search(): pending, returned value or raised
  useOut,        \* outcome of use(): returned string or escaped exception
  googleFirst,   \* response the Google endpoint gives to the first request of this call
  log,           \* history: lookups and external calls of the current call
  hitAtStart,    \* history: the cache held an unexpired entry for query at call start
  staleAtStart,  \* history: at call start the entry for query was stored more than TTL ago
  expiredDuring, \* history: the entry for query expired since the call started
  last           \* history: summary of the previous search() call

vars == <<cache, now, pc, args, query, api, attempt, results, searchOut, useOut,
          googleFirst, log, hitAtStart, staleAtStart, expiredDuring, last>>

NotYet == [exc |-> "pending", val |-> <<>>]

\* mutant: membership that ignores the expiry time
InCache_IgnoreExpiry(c, k, t) == c[k].present

\* diskcache: an entry is visible while expire_time > now
InCache(c, k, t) == c[k].present /\ c[k].expire > t

\* mutant: an empty value is not stored
CacheSetOp_SkipEmpty(c, k, v, t) ==
  IF v = <<>> THEN c
  ELSE [c EXCEPT ![k] = [present |-> TRUE, value |-> v, store_time |-> t, expire |-> t + TTL]]

\* diskcache Cache.set(key, value, expire=seconds)
CacheSetOp(c, k, v, t) ==
  [c EXCEPT ![k] = [present |-> TRUE, value |-> v, store_time |-> t, expire |-> t + TTL]]

Event(kind, r) == [kind |-> kind, exc |-> r.exc, val |-> r.val, shape |-> "none", text |-> <<>>]
LLMEvent(resp) == [kind |-> "llm", exc |-> IF resp.status = "error" THEN "APIError" ELSE "none",
                   val |-> <<>>, shape |-> resp.shape, text |-> resp.content]
Calls(l, kind) == Cardinality({i \in 1..Len(l) : l[i].kind = kind})
ProviderCalls(l) == Calls(l, "bing") + Calls(l, "google")

Init ==
  /\ cache = [k \in Questions |-> NoEntry]
  /\ now = 0
  /\ pc = "idle"
  /\ args = <<>>
  /\ query = ""
  /\ api = 1
  /\ attempt = 1
  /\ results = <<>>
  /\ searchOut = NotYet
  /\ useOut = Ret(<<>>)
  /\ googleFirst = [status |-> "error", items |-> <<>>]
  /\ log = <<>>
  /\ hitAtStart = FALSE
  /\ staleAtStart = FALSE
  /\ expiredDuring = FALSE
  /\ last = [valid |-> FALSE, q |-> "", out |-> NotYet, ncalls |-> 0, fresh |-> FALSE]

\* ---------------------------------------------------------------- actions
Expires(k) == cache[k].present /\ cache[k].expire > now /\ cache[k].expire <= now + TickLen

\* time passes between two statements
Tick ==
  /\ now + TickLen <= MaxNow
  /\ now' = now + TickLen
  /\ expiredDuring' = (expiredDuring \/ Expires(query))
  /\ last' = [last EXCEPT !.fresh = (@ /\ ~Expires(last.q))]
  /\ UNCHANGED <<cache, pc, args, query, api, attempt, results, searchOut, useOut,
                 googleFirst, log, hitAtStart, staleAtStart>>

\* the summary of the call that has just finished, kept for the next one
Shift == IF searchOut.exc = "pending" THEN last
         ELSE [valid |-> TRUE, q |-> query, out |-> searchOut,
               ncalls |-> ProviderCalls(log), fresh |-> ~expiredDuring]

\* use(*args), lines 124-133, up to the first cache lookup of search()
CallUse(a) ==
  /\ pc \in {"idle", "returned"}
  /\ args' = a
  /\ log' = <<>>
  /\ last' = Shift
  /\ searchOut' = NotYet
  /\ results' = <<>>
  /\ api' = 1
  /\ attempt' = 1
  /\ expiredDuring' = FALSE
  /\ IF ArgsMissing(a)
     THEN /\ useOut' = Ret(ErrQuestionRequired)
          /\ pc' = "returned"
          /\ hitAtStart' = FALSE
          /\ staleAtStart' = FALSE
          /\ UNCHANGED <<query, googleFirst>>
     ELSE /\ query' = a[1]
          /\ pc' = "cs_check"
          /\ hitAtStart' = InCache(cache, a[1], now)
          /\ staleAtStart' = (cache[a[1]].present /\ now - cache[a[1]].store_time > TTL)
          /\ googleFirst' \in GoogleResponses
          /\ UNCHANGED useOut
  /\ UNCHANGED <<cache, now>>

\* mutant: search() swallows the exception and returns [] to use()
Unwind_Swallow(e, l) ==
  /\ searchOut' = Ret(<<>>)
  /\ pc' = "synth"
  /\ log' = l
  /\ UNCHANGED <<api, attempt, useOut>>

\* an exception leaves cached_search and search and reaches use()'s handler
Unwind(e, l) ==
  /\ searchOut' = Raise(e)
  /\ useOut' = UseTry(Raise(e))
  /\ pc' = "returned"
  /\ log' = l
  /\ UNCHANGED <<api, attempt>>

\* mutant: the loops go on after a non-empty result
Continue_NoShortCircuit(r, l) ==
  /\ log' = l
  /\ IF attempt < max_retries
     THEN /\ attempt' = attempt + 1 /\ pc' = "cs_check" /\ UNCHANGED <<api, searchOut>>
     ELSE IF api < Len(apis)
     THEN /\ api' = api + 1 /\ attempt' = 1 /\ pc' = "cs_check" /\ UNCHANGED searchOut
     ELSE /\ searchOut' = Ret(<<>>) /\ pc' = "synth" /\ UNCHANGED <<api, attempt>>
  /\ UNCHANGED useOut

\* mutant: exhausting the providers raises instead of returning []
Continue_ExhaustRaises(r, l) ==
  /\ log' = l
  /\ IF r # <<>>
     THEN /\ searchOut' = Ret(r) /\ pc' = "synth" /\ UNCHANGED <<api, attempt>>
     ELSE IF attempt < max_retries
     THEN /\ attempt' = attempt + 1 /\ pc' = "cs_check" /\ UNCHANGED <<api, searchOut>>
     ELSE IF api < Len(apis)
     THEN /\ api' = api + 1 /\ attempt' = 1 /\ pc' = "cs_check" /\ UNCHANGED searchOut
     ELSE /\ searchOut' = Raise("RuntimeError") /\ pc' = "synth" /\ UNCHANGED <<api, attempt>>
  /\ UNCHANGED useOut

\* mutant: off-by-one in the retry loop, one attempt too many per provider
Continue_ExtraRetry(r, l) ==
  /\ log' = l
  /\ IF r # <<>>
     THEN /\ searchOut' = Ret(r) /\ pc' = "synth" /\ UNCHANGED <<api, attempt>>
     ELSE IF attempt <= max_retries
     THEN /\ attempt' = attempt + 1 /\ pc' = "cs_check" /\ UNCHANGED <<api, searchOut>>
     ELSE IF api < Len(apis)
     THEN /\ api' = api + 1 /\ attempt' = 1 /\ pc' = "cs_check" /\ UNCHANGED searchOut
     ELSE /\ searchOut' = Ret(<<>>) /\ pc' = "synth" /\ UNCHANGED <<api, attempt>>
  /\ UNCHANGED useOut

\* search(), lines 107-113: what the loops do with the result of one attempt
Continue(r, l) ==
  /\ log' = l
  /\ IF r # <<>>
     THEN /\ searchOut' = Ret(r) /\ pc' = "synth" /\ UNCHANGED <<api, attempt>>
     ELSE IF attempt < max_retries
     THEN /\ attempt' = attempt + 1 /\ pc' = "cs_check" /\ UNCHANGED <<api, searchOut>>
     ELSE IF api < Len(apis)
     THEN /\ api' = api + 1 /\ attempt' = 1 /\ pc' = "cs_check" /\ UNCHANGED searchOut
     ELSE /\ searchOut' = Ret(<<>>) /\ pc' = "synth" /\ UNCHANGED <<api, attempt>>
  /\ UNCHANGED useOut

\* mutant: the lookup is skipped and the provider is always called
CacheCheck_AlwaysMiss ==
  /\ pc = "cs_check"
  /\ pc' = "cs_fetch"
  /\ UNCHANGED <<cache, now, args, query, api, attempt, results, searchOut, useOut,
                 googleFirst, log, hitAtStart, staleAtStart, expiredDuring, last>>

\* cached_search, line 55: `query in self.cache`
CacheCheck ==
  /\ pc = "cs_check"
  /\ pc' = IF InCache(cache, query, now) THEN "cs_read" ELSE "cs_fetch"
  /\ UNCHANGED <<cache, now, args, query, api, attempt, results, searchOut, useOut,
                 googleFirst, log, hitAtStart, staleAtStart, expiredDuring, last>>

\* mutant: a hit rewrites the entry and so restarts its expiry (sliding TTL)
CacheRead_Touch ==
  /\ pc = "cs_read"
  /\ IF InCache(cache, query, now)
     THEN /\ results' = cache[query].value
          /\ cache' = CacheSetOp(cache, query, cache[query].value, now)
          /\ Continue(cache[query].value, Append(log, Event("hit", Ret(cache[query].value))))
     ELSE /\ results' = results
          /\ cache' = cache
          /\ Unwind("KeyError", Append(log, Event("hit", Raise("KeyError"))))
  /\ UNCHANGED <<now, args, query, googleFirst, hitAtStart, staleAtStart, expiredDuring, last>>

\* cached_search, line 57: `return self.cache[query]` (KeyError when no visible entry)
CacheRead ==
  /\ pc = "cs_read"
  /\ IF InCache(cache, query, now)
     THEN /\ results' = cache[query].value
          /\ Continue(cache[query].value, Append(log, Event("hit", Ret(cache[query].value))))
     ELSE /\ results' = results
          /\ Unwind("KeyError", Append(log, Event("hit", Raise("KeyError"))))
  /\ UNCHANGED <<cache, now, args, query, googleFirst, hitAtStart, staleAtStart, expiredDuring, last>>

\* the outcome of the provider at position i for an endpoint response
Provider(i, resp) == IF apis[i] = "bing" THEN search_bing(resp) ELSE search_google(resp)

\* cached_search, line 60: `results = search_function(query)`
Fetch ==
  /\ pc = "cs_fetch"
  /\ \E resp \in IF apis[api] = "bing" THEN BingResponses
                 ELSE IF Calls(log, "google") = 0 THEN {googleFirst} ELSE GoogleResponses :
       LET r == Provider(api, resp) IN
         IF r.exc = "none"
         THEN /\ results' = r.val
              /\ pc' = "cs_set"
              /\ log' = Append(log, Event(apis[api], r))
              /\ UNCHANGED <<api, attempt, searchOut, useOut>>
         ELSE /\ results' = results
              /\ Unwind(r.exc, Append(log, Event(apis[api], r)))
  /\ UNCHANGED <<cache, now, args, query, googleFirst, hitAtStart, staleAtStart, expiredDuring, last>>

\* mutant: only non-empty results are stored
Store_SkipEmpty ==
  /\ pc = "cs_set"
  /\ cache' = IF results # <<>> THEN CacheSetOp(cache, query, results, now) ELSE cache
  /\ Continue(results, log)
  /\ UNCHANGED <<now, args, query, results, googleFirst, hitAtStart, staleAtStart, expiredDuring, last>>

\* cached_search, lines 61-62: store with a one-week expiry, return to search()
Store ==
  /\ pc = "cs_set"
  /\ cache' = CacheSetOp(cache, query, results, now)
  /\ Continue(results, log)
  /\ UNCHANGED <<now, args, query, results, googleFirst, hitAtStart, staleAtStart, expiredDuring, last>>

\* use(), lines 136-165: prompt, completion call, extraction
Synthesize ==
  /\ pc = "synth"
  /\ \E resp \in LLMResponses :
       /\ useOut' = UseTry(Complete(resp))
       /\ log' = Append(log, LLMEvent(resp))
  /\ pc' = "returned"
  /\ UNCHANGED <<cache, now, args, query, api, attempt, results, searchOut,
                 googleFirst, hitAtStart, staleAtStart, expiredDuring, last>>

Next ==
  \/ \E a \in {<<>>} \cup {<<q>> : q \in Questions} : CallUse(a)
  \/ CacheCheck
  \/ CacheRead
  \/ Fetch
  \/ Store
  \/ Synthesize
  \/ Tick

Spec == Init /\ [][Next]_vars

\* ----------------------------------------------------------------- claims
SearchFinished == searchOut.exc # "pending"
SearchReturned == searchOut.exc = "none"
UseReturned == pc = "returned"
BingEvents == {i \in 1..Len(log) : log[i].kind = "bing"}
GoogleEvents == {i \in 1..Len(log) : log[i].kind = "google"}
BingAllEmpty == \A i \in BingEvents : log[i].exc = "none" /\ log[i].val = <<>>
GoogleFirstResult == search_google(googleFirst)
GoogleFirstNonEmpty == GoogleFirstResult.exc = "none" /\ GoogleFirstResult.val # <<>>
FallbackCase == SearchReturned /\ ~hitAtStart /\ BingAllEmpty /\ GoogleFirstNonEmpty

\* C1: a search that starts without a cache entry, in which Bing returns an
\* empty list on every attempt and Google answers its first request with a
\* non-empty list, returns Google's results.
C1_FallbackResult == FallbackCase => searchOut = Ret(GoogleFirstResult.val)

\* C2: in that same search Bing is called exactly max_retries times and
\* Google exactly once.
C2_RetryCount ==
  FallbackCase => (Calls(log, "bing") = max_retries /\ Calls(log, "google") = 1)

\* C3: when no unexpired entry exists at the start and Bing returns a
\* non-empty list, search returns exactly that list and Google is not called.
C3_ShortCircuit ==
  \A i \in BingEvents :
    (~hitAtStart /\ log[i].exc = "none" /\ log[i].val # <<>>) =>
      /\ Calls(log, "google") = 0
      /\ pc # "cs_set" => searchOut = Ret(log[i].val)

C3_Witness ==
  /\ pc = "synth" /\ ~hitAtStart
  /\ \E i \in BingEvents : log[i].val # <<>> /\ searchOut = Ret(log[i].val)

\* C4: two consecutive searches for the same query with no expiry of its
\* entry in between issue at most one provider call in total, and the second
\* has the same outcome as the first.
C4_CacheIdempotence ==
  (SearchFinished /\ last.valid /\ last.q = query /\ last.fresh /\ ~expiredDuring) =>
    /\ last.ncalls + ProviderCalls(log) <= 1
    /\ searchOut = last.out

\* C5: a provider is only ever called while the cache has no unexpired entry
\* for the query; a search that starts on an unexpired entry which does not
\* expire meanwhile returns the cached value, without raising and without
\* any provider call.
C5_CacheAuthority ==
  /\ pc = "cs_fetch" => ~(cache[query].present /\ cache[query].expire > now)
  /\ (SearchFinished /\ hitAtStart /\ ~expiredDuring) =>
       /\ ProviderCalls(log) = 0
       /\ searchOut = Ret(cache[query].value)

C5_Witness ==
  /\ pc = "synth" /\ hitAtStart /\ ~expiredDuring
  /\ searchOut.val # <<>> /\ searchOut = Ret(cache[query].value)

\* C6: when a search starts and the entry for its query was stored more than
\* TTL ago, the first lookup is a miss and the call's first event is a fresh
\* provider call.
C6_CacheExpiry ==
  staleAtStart =>
    /\ ~hitAtStart
    /\ ~(pc = "cs_read" /\ log = <<>>)
    /\ log # <<>> => log[1].kind = "bing"
    /\ SearchFinished => ProviderCalls(log) >= 1

C6_Witness ==
  /\ staleAtStart /\ SearchFinished /\ log # <<>> /\ log[1].kind = "bing"
  /\ cache[query].present /\ cache[query].store_time > 0

\* C7: use("") returns the literal error string and makes no external call.
C7_EmptyQuestion ==
  (UseReturned /\ args = <<"">>) =>
    /\ useOut = Ret(ErrQuestionRequired)
    /\ ProviderCalls(log) = 0 /\ Calls(log, "llm") = 0

\* C8: search_bing and search_google never raise: every provider call
\* returns a list.
C8_ProvidersNeverRaise ==
  \A i \in BingEvents \cup GoogleEvents : log[i].exc = "none"

\* C9: use always returns a string; no exception escapes it, whatever the
\* providers and the language model do.
C9_UseNeverRaises == useOut.exc = "none"

C9_Witness ==
  /\ UseReturned /\ useOut = Ret(MsgUnableToGenerate)
  /\ \E i \in 1..Len(log) : log[i].exc # "none"

LLMEvents == {i \in 1..Len(log) : log[i].kind = "llm"}

\* C10 (as stated): when the completion call fails use returns the fixed
\* fallback message, and when it succeeds use returns the trimmed text.
C10_Original ==
  \A i \in LLMEvents :
    UseReturned =>
      IF log[i].exc # "none" THEN useOut = Ret(MsgUnableToGenerate)
      ELSE useOut = Ret(Strip(log[i].text))

\* C10 (amended): when the completion call fails use returns the fixed
\* fallback message; when it succeeds with a message that carries a content
\* text use returns that text trimmed; a message whose content is None gives
\* the fallback message and a message without content gives the parse
\* message.
C10_SynthesisOutcome ==
  \A i \in LLMEvents :
    UseReturned =>
      IF log[i].exc # "none" THEN useOut = Ret(MsgUnableToGenerate)
      ELSE IF log[i].shape \in {"dict", "attr"} THEN useOut = Ret(Strip(log[i].text))
      ELSE IF log[i].shape = "attr_none" THEN useOut = Ret(MsgUnableToGenerate)
      ELSE useOut = Ret(MsgUnableToParse)

C10_Witness ==
  /\ UseReturned
  /\ \E i \in LLMEvents :
       /\ log[i].exc = "none" /\ log[i].text = <<" ", "a", " ">>
       /\ useOut = Ret(<<"a">>)

\* the attempts of the current search: each is a cache hit or a provider call
SearchEvents == {i \in 1..Len(log) : log[i].kind \in {"hit", "bing", "google"}}
InAttempt == pc \in {"cs_check", "cs_read", "cs_fetch"}

\* C11: a search in which every attempt against every provider yielded an
\* empty list returns the empty list as a normal value, after all
\* max_retries attempts on each provider.
C11_AllExhausted ==
  (SearchFinished /\ \A i \in SearchEvents : log[i].exc = "none" /\ log[i].val = <<>>) =>
    /\ searchOut = Ret(<<>>)
    /\ Cardinality(SearchEvents) = max_retries * Len(apis)

C11_Witness ==
  /\ pc = "synth" /\ searchOut = Ret(<<>>)
  /\ Cardinality(SearchEvents) = max_retries * Len(apis)
  /\ \A i \in SearchEvents : log[i].val = <<>>

\* C12: a search makes at most max_retries attempts per provider, hence at
\* most 6 attempts in all and at most 3 calls of each provider; the attempt
\* in progress is always the ((api-1)*max_retries + attempt)-th, and after
\* the last one the search has finished.
C12_BoundedRetries ==
  /\ attempt \in 1..max_retries /\ api \in 1..Len(apis)
  /\ Calls(log, "bing") <= max_retries /\ Calls(log, "google") <= max_retries
  /\ Cardinality(SearchEvents) <= max_retries * Len(apis)
  /\ InAttempt => Cardinality(SearchEvents) = (api - 1) * max_retries + attempt - 1
  /\ pc = "cs_set" => Cardinality(SearchEvents) = (api - 1) * max_retries + attempt
  /\ Cardinality(SearchEvents) = max_retries * Len(apis) => (SearchFinished \/ pc = "cs_set")

C12_Witness ==
  /\ SearchFinished /\ Cardinality(SearchEvents) = max_retries * Len(apis)
  /\ Calls(log, "bing") >= 1 /\ Calls(log, "google") >= 1

\* C13: the step that ends a cached_search which missed the cache and whose
\* provider returned normally leaves an entry for the query holding the
\* returned list, also when it is empty, expiring 7 days after the store.
C13_StoreOnMiss ==
  [][(pc = "cs_set" /\ pc' # "cs_set") =>
       cache'[query] = [present |-> TRUE, value |-> log[Len(log)].val,
                        store_time |-> now, expire |-> now + 7 * 24 * 60 * 60]]_vars

C13_Witness ==
  /\ pc = "cs_check" /\ log # <<>>
  /\ log[Len(log)].kind = "bing" /\ log[Len(log)].exc = "none" /\ log[Len(log)].val = <<>>
  /\ cache[query].present /\ cache[query].value = <<>>
  /\ cache[query].expire = cache[query].store_time + 7 * 24 * 60 * 60

\* C14: a cache lookup never raises because of expiry: an entry that has
\* expired, also between the membership test and the read, is a miss.
C14_ExpiredLookupIsMiss ==
  \A i \in 1..Len(log) : log[i].kind = "hit" => log[i].exc = "none"

\* C15: within a search Bing is attempted before Google: Bing is only called
\* in the first max_retries attempts, Google only after them, and only when
\* each of those first attempts ended with an empty list.
C15_FixedOrder ==
  /\ \A i \in BingEvents : i <= max_retries
  /\ \A j \in GoogleEvents :
       /\ j > max_retries
       /\ \A i \in 1..max_retries :
            log[i].kind \in {"hit", "bing"} /\ log[i].exc = "none" /\ log[i].val = <<>>
  /\ \A i \in BingEvents, j \in GoogleEvents : i < j

C15_Witness ==
  /\ GoogleEvents # {} /\ BingEvents # {}
  /\ SearchFinished

\* C16: a cache hit leaves the cache as it is; the cache changes only in the
\* store after a provider call, and every entry expires exactly 7 days after
\* the time it was stored.
C16_HitsDoNotWrite ==
  [][/\ pc = "cs_read" => cache' = cache
     /\ cache' # cache => pc = "cs_set"
     /\ \A k \in Questions :
          cache'[k].present => cache'[k].expire = cache'[k].store_time + 7 * 24 * 60 * 60]_vars

C16_Witness ==
  /\ \E i \in 1..Len(log) : log[i].kind = "hit" /\ log[i].exc = "none"
  /\ cache[query].present /\ now > cache[query].store_time
  /\ cache[query].expire = cache[query].store_time + 7 * 24 * 60 * 60

\* C17: in a search during which the entry for the query does not expire, at
\* most one provider call is made, and only to Bing; after Bing's empty list
\* was stored every later attempt is a cache hit on [], and a search that
\* starts on a stored [] consists of such hits only; Google is never called.
C17_NegativeCaching ==
  ~expiredDuring =>
    /\ ProviderCalls(log) <= 1
    /\ Calls(log, "google") = 0
    /\ \A i \in BingEvents : \A j \in SearchEvents :
         (log[i].exc = "none" /\ log[i].val = <<>> /\ j > i) =>
           (log[j].kind = "hit" /\ log[j].exc = "none" /\ log[j].val = <<>>)
    /\ (hitAtStart /\ cache[query].value = <<>>) =>
         \A j \in SearchEvents : log[j].kind = "hit" /\ log[j].exc = "none" /\ log[j].val = <<>>

C17_Witness ==
  /\ SearchFinished /\ ~expiredDuring /\ searchOut = Ret(<<>>)
  /\ Calls(log, "bing") = 1 /\ Calls(log, "google") = 0
  /\ Cardinality(SearchEvents) = max_retries * Len(apis)
  /\ GoogleFirstNonEmpty

ProviderRaised(l) ==
  {i \in 1..Len(l) : l[i].kind \in {"bing", "google"} /\ l[i].exc # "none"}

\* C18: the step in which a provider call raises leaves the cache unchanged
\* and makes use return the fallback message; the raising call is the last
\* event of that use call: no further attempt and no language-model call.
C18_ProviderException ==
  [][/\ (pc = "cs_fetch" /\ pc' # "cs_fetch" /\ ProviderRaised(log') # {}) =>
          (cache' = cache /\ Len(log') = Len(log) + 1)
     /\ \A i \in ProviderRaised(log') :
          /\ i = Len(log')
          /\ Calls(log', "llm") = 0
          /\ pc' = "returned"
          /\ useOut' = Ret(MsgUnableToGenerate)]_vars

C18_Witness ==
  /\ UseReturned /\ ProviderRaised(log) = {Len(log)}
  /\ log[Len(log)].exc = "KeyError"
  /\ ~cache[query].present
  /\ useOut = Ret(MsgUnableToGenerate)

====
